---- MODULE Spec2Model ----
(***************************************************************************)
(* Upstream device controller of KubeEdge's cloud side                     *)
(* (cloud/pkg/devicecontroller/controller/upstream.go).                    *)
(*                                                                         *)
(* One dispatcher goroutine receives messages from the message layer and   *)
(* pushes the "twin/edge_updated" ones on the buffered channel             *)
(* deviceStatusChan; UpdateDeviceStatusWorkers goroutines drain it and,    *)
(* per message: decode, resolve the device id, load the *Device from the   *)
(* downstream controller's sync.Map, merge the reported twins, store the   *)
(* pointer back, marshal the status and patch the API server.              *)
(*                                                                         *)
(* Go facts the model keeps:                                               *)
(*  - the cache holds POINTERS to v1alpha1.Device; line 134 copies the     *)
(*    DeviceStatus struct, i.e. the slice header of Status.Twins, so the   *)
(*    worker's deviceStatus.Status.Twins shares its backing array with the *)
(*    cached object: line 147 writes into the cached object itself;        *)
(*  - that write is an unsynchronised multi-word struct assignment         *)
(*    (TwinProperty = Value string + Metadata map).  Concurrent workers    *)
(*    race on it; the model performs it as two steps (Value, Metadata) so  *)
(*    that every mix of the racing writers' fields is an outcome;          *)
(*  - `range` over the map msgTwin.Twin visits the names in any order;     *)
(*  - select at line 108 picks any ready case;                             *)
(*  - the worker goroutines run the same code and have no identity: the    *)
(*    state holds how many of them wait in the select, how many have       *)
(*    returned, and the bag of the local states of those processing a      *)
(*    message.                                                             *)
(***************************************************************************)
EXTENDS Integers, Sequences, FiniteSets, Bags, TLC

\* ---------------------------------------------------------------- bounds
\* config.UpdateDeviceStatusWorkers: number of worker goroutines
NumWorkers == 2
\* config.UpdateDeviceStatusBuffer: capacity of deviceStatusChan
QueueCap == 1
\* number of messages the message layer delivers in one run
MaxRecv == 2
\* longest cached twin list of the merge specification
MaxTwins == 3
\* number of v1alpha1.Device objects allocated in one run: the one cached at
\* the start and those the downstream controller stores later
MaxObjects == 2

\* ------------------------------------------------------------- optionals
\* A Go pointer / optional field: <<>> is nil, <<x>> points to x.
Nil == <<>>
Ptr(x) == <<x>>
IsNil(o) == Len(o) = 0
Deref(o) == o[1]

\* ------------------------------------------------------------- constants
MergePatchType == "application/merge-patch+json"
ResourceTypeDevices == "devices"
ResourceTypeTwinEdgeUpdated == "twin/edge_updated"
ResourceTypeMembershipDetail == "membership/detail"

\* ------------------------------------------------------------ conversions
DigitChars == "0123456789"
Digit(d) == SubSeq(DigitChars, d + 1, d + 1)

RECURSIVE FormatNat(_)
FormatNat(n) == IF n < 10 THEN Digit(n) ELSE FormatNat(n \div 10) \o Digit(n % 10)

\* strconv.FormatInt(i, 10)
FormatInt(i) == IF i < 0 THEN "-" \o FormatNat(0 - i) ELSE FormatNat(i)

\* ------------------------------------------------------------- data model
\* v1alpha1.TwinProperty: Value string, Metadata map[string]string
EmptyMetadata == [k \in {} |-> ""]
UnsetProperty == [value |-> "", metadata |-> EmptyMetadata]
OldProperty == [value |-> "old", metadata |-> [k \in {"timestamp", "type", "unit"} |-> "x"]]

\* v1alpha1.Twin
Twin(name, desired, reported) ==
    [propertyName |-> name, desired |-> desired, reported |-> reported]

\* types.MsgTwin as decoded from the payload
\*   Actual   *TwinValue    {Value *string, Metadata *ValueMetadata{Timestamp int64}}
\*   Metadata *TypeMetadata {Type string}
TwinValue(value, metadata) == [value |-> value, metadata |-> metadata]
MsgTwin(actual, metadata) == [actual |-> actual, metadata |-> metadata]

TwNoActual == MsgTwin(Nil, Ptr([type |-> "int"]))
TwNoValue == MsgTwin(Ptr(TwinValue(Nil, Ptr([timestamp |-> 7]))), Nil)
TwBare(v) == MsgTwin(Ptr(TwinValue(Ptr(v), Nil)), Nil)
TwStamped(v, ts) == MsgTwin(Ptr(TwinValue(Ptr(v), Ptr([timestamp |-> ts]))), Nil)
TwFull(v, ts, ty) ==
    MsgTwin(Ptr(TwinValue(Ptr(v), Ptr([timestamp |-> ts]))), Ptr([type |-> ty]))

\* line 137: twin.Actual != nil && twin.Actual.Value != nil
HasValue(twin) == ~IsNil(twin.actual) /\ ~IsNil(Deref(twin.actual).value)

\* NewReported with the type forgotten
NewReportedDropsType(twin) ==
    LET actual == Deref(twin.actual)
        keys == IF IsNil(actual.metadata) THEN {} ELSE {"timestamp"}
    IN  [value |-> Deref(actual.value),
         metadata |-> [k \in keys |-> FormatInt(Deref(actual.metadata).timestamp)]]

\* lines 138-146: the TwinProperty built for a matching twin
NewReported(twin) ==
    LET actual == Deref(twin.actual)
        keys == (IF IsNil(actual.metadata) THEN {} ELSE {"timestamp"})
                \cup (IF IsNil(twin.metadata) THEN {} ELSE {"type"})
    IN  [value |-> Deref(actual.value),
         metadata |-> [k \in keys |->
                         IF k = "timestamp"
                         THEN FormatInt(Deref(actual.metadata).timestamp)
                         ELSE Deref(twin.metadata).type]]

\* lines 136-137, 148: the inner loop stops at the first cached twin whose
\* PropertyName equals twinName, provided the update carries a value; 0 when
\* the loop runs to its end.
RECURSIVE ScanFrom(_, _, _, _)
ScanFrom(twins, twinName, twin, i) ==
    IF i > Len(twins) THEN 0
    ELSE IF twinName = twins[i].propertyName /\ HasValue(twin) THEN i
    ELSE ScanFrom(twins, twinName, twin, i + 1)

\* MatchIndex with the loop running on after a match: the last match wins
MatchIndexLast(twins, twinName, twin) ==
    LET S == {i \in 1..Len(twins) : twinName = twins[i].propertyName /\ HasValue(twin)}
    IN  IF S = {} THEN 0 ELSE CHOOSE i \in S : \A j \in S : j <= i

MatchIndex(twins, twinName, twin) == ScanFrom(twins, twinName, twin, 1)

\* ------------------------------------------------------- message layer
\* model.Message: ID, resource locator, content.  The resource locator is
\* parsed by messagelayer.GetResourceType / GetDeviceID, which are not part
\* of this file; a locator is kept as the pair of things they extract.
Resource(rtype, device) == [rtype |-> rtype, device |-> device]

\* messagelayer.GetResourceType(resource): (string, error); Nil is the error
GetResourceType(resource) == resource.rtype

\* messagelayer.GetDeviceID(resource): (string, error); Nil is the error
GetDeviceID(resource) == resource.device

\* Content of a message: a payload json.Unmarshal rejects, or a decodable
\* types.DeviceTwinUpdate (only its Twin map matters here).
Malformed == [ok |-> FALSE, twin |-> <<>>]
Payload(twin) == [ok |-> TRUE, twin |-> twin]

\* lines 172-189: the decoded DeviceTwinUpdate, or Nil for the error
unmarshalDeviceStatusMessage(msg) ==
    IF msg.content.ok THEN Ptr(msg.content.twin) ELSE Nil

TwinRes(dev) == Resource(Ptr(ResourceTypeTwinEdgeUpdated), Ptr(dev))

\* What the message layer may deliver in the pipeline specification: two
\* updates of the same twin of dev-1, the second naming also a twin dev-1
\* does not have, an update for a device the cache does
\* not hold, a payload that does not decode, a locator without device id, a
\* message of another resource type and one whose type does not parse.
Menu ==
    { [resource |-> TwinRes("dev-1"),
       content |-> Payload([n \in {"temperature"} |-> TwFull("42", 1000, "int")])],
      [resource |-> TwinRes("dev-1"),
       content |-> Payload([n \in {"temperature", "pressure"} |->
                              IF n = "temperature" THEN TwBare("17") ELSE TwBare("9")])],
      [resource |-> TwinRes("dev-3"),
       content |-> Payload([n \in {"temperature"} |-> TwBare("17")])],
      [resource |-> TwinRes("dev-1"), content |-> Malformed],
      [resource |-> Resource(Ptr(ResourceTypeTwinEdgeUpdated), Nil),
       content |-> Payload([n \in {"temperature"} |-> TwBare("17")])],
      [resource |-> Resource(Ptr(ResourceTypeMembershipDetail), Nil),
       content |-> Malformed],
      [resource |-> Resource(Nil, Ptr("dev-1")), content |-> Malformed] }

NoMsg == [id |-> 0, resource |-> Resource(Nil, Nil), content |-> Malformed]

\* ------------------------------------------------------------------ state
VARIABLES
    done,        \* beehiveContext.Done() is closed
    dpc,         \* dispatcher: "select", "receive", "push", "stopped"
    dmsg,        \* dispatcher: msg (line 82)
    queue,       \* uc.deviceStatusChan
    idle,        \* number of workers waiting in the select of line 108
    stopped,     \* number of workers that have returned (line 111)
    busy,        \* bag of the local states of the workers processing a message
    cache,       \* uc.dc.deviceManager.Device: device id -> address, 0 if absent
    heap,        \* the v1alpha1.Device objects, by address
    remote,      \* the API server: device id -> status.twins
    nrecv,       \* history: number of messages Receive has returned
    twinIds,     \* history: ids of the received messages that are twin updates
    pushed,      \* history: ids of the messages sent on deviceStatusChan, in order
    deqOf,       \* history, per message id: how many times it was dequeued
    storesOf,    \* history, per message id: number of Stores (line 155)
    patchesOf,   \* history, per message id: number of Patch requests (line 162)
    outcome,     \* history, per message id: how its processing ended
    seen         \* history: <<device id, twin name, reported value>> the cache has held

vars == <<done, dpc, dmsg, queue, idle, stopped, busy, cache, heap, remote, nrecv,
          twinIds, pushed, deqOf, storesOf, patchesOf, outcome, seen>>

dispVars == <<dpc, dmsg, nrecv, twinIds, pushed>>
workerVars == <<idle, stopped, busy>>
storeVars == <<cache, heap, remote, seen>>
histVars == <<deqOf, storesOf, patchesOf, outcome>>

MsgIds == 1..MaxRecv
DeviceIds == {"dev-1", "dev-3"}

Device(namespace, twins) == [namespace |-> namespace, twins |-> twins]

Desired(v) == [value |-> v, metadata |-> [k \in {"type"} |-> "int"]]

\* The downstream controller has cached dev-1; dev-3 is unknown to it.
InitCache == [d \in DeviceIds |-> IF d = "dev-1" THEN 1 ELSE 0]

InitHeap ==
    [a \in {1} |->
        Device("default",
               <<Twin("temperature", Desired("20"), UnsetProperty),
                 Twin("humidity", Desired("50"), OldProperty)>>)]

\* The API server holds the same device.
InitRemote ==
    [d \in DeviceIds |-> IF InitCache[d] = 0 THEN Nil ELSE Ptr(InitHeap[InitCache[d]].twins)]

\* What a Load of each device id would find, twin by twin.
CacheHolds(c, h) ==
    UNION { { <<d, h[c[d]].twins[k].propertyName, h[c[d]].twins[k].reported.value>> :
                k \in 1..Len(h[c[d]].twins) } :
            d \in {x \in DOMAIN c : c[x] # 0} }

\* History of a step that writes to the cache or to a cached object.
Observe == seen' = seen \cup CacheHolds(cache', heap')

InitHist ==
    /\ deqOf = [i \in MsgIds |-> 0]
    /\ storesOf = [i \in MsgIds |-> 0]
    /\ patchesOf = [i \in MsgIds |-> 0]
    /\ outcome = [i \in MsgIds |-> "none"]

\* lines 60-72, 192-205: the state Start leaves
Init ==
    /\ done = FALSE
    /\ dpc = "select"
    /\ dmsg = NoMsg
    /\ queue = <<>>
    /\ idle = NumWorkers
    /\ stopped = 0
    /\ busy = EmptyBag
    /\ cache = InitCache
    /\ heap = InitHeap
    /\ remote = InitRemote
    /\ seen = CacheHolds(InitCache, InitHeap)
    /\ nrecv = 0
    /\ twinIds = <<>>
    /\ pushed = <<>>
    /\ InitHist

\* ------------------------------------------------------------ environment
\* beehiveContext.Cancel(): the Done channel is closed, once and for all
Cancel ==
    /\ ~done
    /\ done' = TRUE
    /\ UNCHANGED <<dispVars, queue, workerVars, storeVars, histVars>>

\* ------------------------------------------------------------- dispatcher
\* lines 76-79: Done is closed, return
DispatchStop ==
    /\ dpc = "select"
    /\ done
    /\ dpc' = "stopped"
    /\ UNCHANGED <<done, dmsg, nrecv, twinIds, pushed, queue, workerVars, storeVars, histVars>>

\* lines 80-81: default case, go on to Receive
DispatchPoll ==
    /\ dpc = "select"
    /\ ~done
    /\ dpc' = "receive"
    /\ UNCHANGED <<done, dmsg, nrecv, twinIds, pushed, queue, workerVars, storeVars, histVars>>

\* lines 82-86: Receive returns an error
DispatchReceiveError ==
    /\ dpc = "receive"
    /\ dpc' = "select"
    /\ UNCHANGED <<done, dmsg, nrecv, twinIds, pushed, queue, workerVars, storeVars, histVars>>

\* A message the bus hands over: the next id, a locator and a content.
Arrivals == { [id |-> nrecv + 1, resource |-> m.resource, content |-> m.content] :
               m \in Menu }

\* History of a successful Receive.  Whether a message is a twin update is
\* read off its locator here, not taken from the dispatcher's own switch.
IsTwinUpdate(msg) == msg.resource.rtype = Ptr("twin/edge_updated")

Received(msg) ==
    /\ nrecv' = nrecv + 1
    /\ twinIds' = IF IsTwinUpdate(msg) THEN Append(twinIds, msg.id) ELSE twinIds

\* lines 82, 90-94: GetResourceType fails, the message is dropped
DispatchParseFail ==
    /\ dpc = "receive"
    /\ nrecv < MaxRecv
    /\ \E msg \in Arrivals :
        /\ IsNil(GetResourceType(msg.resource))
        /\ Received(msg)
    /\ dpc' = "select"
    /\ UNCHANGED <<done, dmsg, pushed, queue, workerVars, storeVars, histVars>>

\* DispatchOther with the switch falling into the twin-update case
DispatchOtherPushes ==
    /\ dpc = "receive"
    /\ nrecv < MaxRecv
    /\ \E msg \in Arrivals :
        /\ ~IsNil(GetResourceType(msg.resource))
        /\ Deref(GetResourceType(msg.resource)) # ResourceTypeTwinEdgeUpdated
        /\ Received(msg)
        /\ dmsg' = msg
    /\ dpc' = "push"
    /\ UNCHANGED <<done, pushed, queue, workerVars, storeVars, histVars>>

\* lines 82, 90, 97, 100-102: another resource type, the message is dropped
DispatchOther ==
    /\ dpc = "receive"
    /\ nrecv < MaxRecv
    /\ \E msg \in Arrivals :
        /\ ~IsNil(GetResourceType(msg.resource))
        /\ Deref(GetResourceType(msg.resource)) # ResourceTypeTwinEdgeUpdated
        /\ Received(msg)
    /\ dpc' = "select"
    /\ UNCHANGED <<done, dmsg, pushed, queue, workerVars, storeVars, histVars>>

\* lines 82, 90, 97-98: a twin update, about to be sent on the channel
DispatchTwinUpdated ==
    /\ dpc = "receive"
    /\ nrecv < MaxRecv
    /\ \E msg \in Arrivals :
        /\ ~IsNil(GetResourceType(msg.resource))
        /\ Deref(GetResourceType(msg.resource)) = ResourceTypeTwinEdgeUpdated
        /\ Received(msg)
        /\ dmsg' = msg
    /\ dpc' = "push"
    /\ UNCHANGED <<done, pushed, queue, workerVars, storeVars, histVars>>

\* DispatchPush as a non-blocking send: a full channel loses the message
DispatchPushOrDrop ==
    /\ dpc = "push"
    /\ queue' = IF Len(queue) < QueueCap THEN Append(queue, dmsg) ELSE queue
    /\ pushed' = IF Len(queue) < QueueCap THEN Append(pushed, dmsg.id) ELSE pushed
    /\ dmsg' = NoMsg
    /\ dpc' = "select"
    /\ UNCHANGED <<done, nrecv, twinIds, workerVars, storeVars, histVars>>

\* line 99: uc.deviceStatusChan <- msg, which blocks while the channel is full
DispatchPush ==
    /\ dpc = "push"
    /\ Len(queue) < QueueCap
    /\ queue' = Append(queue, dmsg)
    /\ pushed' = Append(pushed, dmsg.id)
    /\ dmsg' = NoMsg
    /\ dpc' = "select"
    /\ UNCHANGED <<done, nrecv, twinIds, workerVars, storeVars, histVars>>

\* ---------------------------------------------------------------- workers
\* The local state of a worker between its dequeue and the end of the
\* iteration:
\*   pc          "decode", "merge", "mergeMeta", "marshal", "patch"
\*   msg         msg (line 112)
\*   cacheDevice cacheDevice (line 129), an address in heap
\*   todo        twin names the range loop of line 135 has yet to visit
\*   at          <<i, twinName>> of a write of line 147 under way
\*   body        body (line 157)
\*   loaded      history: status.twins as they were at the Load of line 124
Dequeued(msg) ==
    [pc |-> "decode", msg |-> msg, cacheDevice |-> 0, todo |-> {}, at |-> <<>>,
     body |-> Nil, loaded |-> <<>>]

Busy == BagToSet(busy)

\* the worker in local state r moves to local state r2
Goto(r, r2) ==
    /\ busy' = (busy (-) SetToBag({r})) (+) SetToBag({r2})
    /\ UNCHANGED <<idle, stopped>>

\* `continue` (or the end of the loop body): back to the select of line 108
Continue(r, how) ==
    /\ busy' = busy (-) SetToBag({r})
    /\ idle' = idle + 1
    /\ outcome' = [outcome EXCEPT ![r.msg.id] = how]
    /\ UNCHANGED stopped

\* lines 108-111: Done is closed, return
WorkerStop ==
    /\ idle > 0
    /\ done
    /\ idle' = idle - 1
    /\ stopped' = stopped + 1
    /\ UNCHANGED <<done, dispVars, queue, busy, storeVars, histVars>>

\* line 112: msg := <-uc.deviceStatusChan
WorkerDequeue ==
    /\ idle > 0
    /\ queue # <<>>
    /\ idle' = idle - 1
    /\ busy' = busy (+) SetToBag({Dequeued(Head(queue))})
    /\ queue' = Tail(queue)
    /\ deqOf' = [deqOf EXCEPT ![Head(queue).id] = @ + 1]
    /\ UNCHANGED <<done, dispVars, stopped, storeVars, storesOf, patchesOf, outcome>>

\* WorkerDecodeFail with return for continue
WorkerDecodeFailReturns(r) ==
    /\ r.pc = "decode"
    /\ IsNil(unmarshalDeviceStatusMessage(r.msg))
    /\ busy' = busy (-) SetToBag({r})
    /\ stopped' = stopped + 1
    /\ outcome' = [outcome EXCEPT ![r.msg.id] = "decode"]
    /\ UNCHANGED <<done, dispVars, queue, idle, storeVars, deqOf, storesOf, patchesOf>>

\* lines 114-118: the payload does not decode
WorkerDecodeFail(r) ==
    /\ r.pc = "decode"
    /\ IsNil(unmarshalDeviceStatusMessage(r.msg))
    /\ Continue(r, "decode")
    /\ UNCHANGED <<done, dispVars, queue, storeVars, deqOf, storesOf, patchesOf>>

\* lines 114, 119-123: the locator holds no device id
WorkerDeviceIDFail(r) ==
    /\ r.pc = "decode"
    /\ ~IsNil(unmarshalDeviceStatusMessage(r.msg))
    /\ IsNil(GetDeviceID(r.msg.resource))
    /\ Continue(r, "deviceid")
    /\ UNCHANGED <<done, dispVars, queue, storeVars, deqOf, storesOf, patchesOf>>

Decodes(msg) ==
    /\ ~IsNil(unmarshalDeviceStatusMessage(msg))
    /\ ~IsNil(GetDeviceID(msg.resource))

deviceID(msg) == Deref(GetDeviceID(msg.resource))
msgTwin(msg) == Deref(unmarshalDeviceStatusMessage(msg))

\* WorkerLoadMiss creating the entry it did not find
WorkerLoadMissCreates(r) ==
    /\ r.pc = "decode"
    /\ Decodes(r.msg)
    /\ cache[deviceID(r.msg)] = 0
    /\ cache' = [cache EXCEPT ![deviceID(r.msg)] = 1]
    /\ storesOf' = [storesOf EXCEPT ![r.msg.id] = @ + 1]
    /\ Continue(r, "miss")
    /\ UNCHANGED <<done, dispVars, queue, heap, remote, deqOf, patchesOf>>
    /\ Observe

\* lines 114, 119, 124-128: Load finds no device
WorkerLoadMiss(r) ==
    /\ r.pc = "decode"
    /\ Decodes(r.msg)
    /\ cache[deviceID(r.msg)] = 0
    /\ Continue(r, "miss")
    /\ UNCHANGED <<done, dispVars, queue, storeVars, deqOf, storesOf, patchesOf>>

\* lines 114, 119, 124, 129, 134: Load returns the cached pointer, and
\* deviceStatus takes a copy of its Status, whose Twins slice still points
\* into the cached object
WorkerLoad(r) ==
    /\ r.pc = "decode"
    /\ Decodes(r.msg)
    /\ cache[deviceID(r.msg)] # 0
    /\ Goto(r, [r EXCEPT !.pc = "merge",
                         !.cacheDevice = cache[deviceID(r.msg)],
                         !.todo = DOMAIN msgTwin(r.msg),
                         !.loaded = heap[cache[deviceID(r.msg)]].twins])
    /\ UNCHANGED <<done, dispVars, queue, storeVars, histVars>>

\* WorkerMergeSkip appending the twin it did not find (an upsert)
WorkerMergeSkipAppends(r) ==
    /\ r.pc = "merge"
    /\ \E twinName \in r.todo :
        LET twin == msgTwin(r.msg)[twinName]
        IN  /\ MatchIndex(heap[r.cacheDevice].twins, twinName, twin) = 0
            /\ heap' = IF HasValue(twin)
                       THEN [heap EXCEPT ![r.cacheDevice].twins =
                               Append(@, Twin(twinName, UnsetProperty, NewReported(twin)))]
                       ELSE heap
            /\ Goto(r, [r EXCEPT !.todo = @ \ {twinName}])
    /\ UNCHANGED <<done, dispVars, queue, cache, remote, histVars>>
    /\ Observe

\* lines 135-137: one iteration of the range loop that matches no cached twin
WorkerMergeSkip(r) ==
    /\ r.pc = "merge"
    /\ \E twinName \in r.todo :
        /\ MatchIndex(heap[r.cacheDevice].twins, twinName, msgTwin(r.msg)[twinName]) = 0
        /\ Goto(r, [r EXCEPT !.todo = @ \ {twinName}])
    /\ UNCHANGED <<done, dispVars, queue, storeVars, histVars>>

\* WorkerMergeValue with += for =
WorkerMergeValueAppends(r) ==
    /\ r.pc = "merge"
    /\ \E twinName \in r.todo :
        LET twin == msgTwin(r.msg)[twinName]
            i == MatchIndex(heap[r.cacheDevice].twins, twinName, twin)
        IN  /\ i # 0
            /\ heap' = [heap EXCEPT ![r.cacheDevice].twins[i].reported.value =
                                        @ \o NewReported(twin).value]
            /\ Goto(r, [r EXCEPT !.pc = "mergeMeta", !.at = <<i, twinName>>])
    /\ UNCHANGED <<done, dispVars, queue, cache, remote, histVars>>
    /\ Observe

\* lines 135-147: one iteration that matches: the first word(s) of
\* deviceStatus.Status.Twins[i].Reported = reported, the Value
WorkerMergeValue(r) ==
    /\ r.pc = "merge"
    /\ \E twinName \in r.todo :
        LET twin == msgTwin(r.msg)[twinName]
            i == MatchIndex(heap[r.cacheDevice].twins, twinName, twin)
        IN  /\ i # 0
            /\ heap' = [heap EXCEPT ![r.cacheDevice].twins[i].reported.value =
                                        NewReported(twin).value]
            /\ Goto(r, [r EXCEPT !.pc = "mergeMeta", !.at = <<i, twinName>>])
    /\ UNCHANGED <<done, dispVars, queue, cache, remote, histVars>>
    /\ Observe

\* lines 147-148: the rest of the assignment, the Metadata, then break
WorkerMergeMeta(r) ==
    /\ r.pc = "mergeMeta"
    /\ LET i == r.at[1]
           twinName == r.at[2]
           twin == msgTwin(r.msg)[twinName]
       IN  /\ heap' = [heap EXCEPT ![r.cacheDevice].twins[i].reported.metadata =
                                       NewReported(twin).metadata]
           /\ Goto(r, [r EXCEPT !.pc = "merge", !.at = <<>>, !.todo = @ \ {twinName}])
    /\ UNCHANGED <<done, dispVars, queue, cache, remote, seen, histVars>>

\* WorkerStore as if the worker had merged into a copy of its own: the list
\* written back is the one loaded with this message's values, and nothing of
\* what anyone else wrote in the meantime
WorkerStoreOwnCopy(r) ==
    /\ r.pc = "merge"
    /\ r.todo = {}
    /\ LET U == msgTwin(r.msg)
           hit(k) == {n \in DOMAIN U : MatchIndex(r.loaded, n, U[n]) = k}
           own == [k \in 1..Len(r.loaded) |->
                     IF hit(k) = {} THEN r.loaded[k]
                     ELSE [r.loaded[k] EXCEPT
                             !.reported = NewReported(U[CHOOSE n \in hit(k) : TRUE])]]
       IN  heap' = [heap EXCEPT ![r.cacheDevice].twins = own]
    /\ cache' = [cache EXCEPT ![deviceID(r.msg)] = r.cacheDevice]
    /\ storesOf' = [storesOf EXCEPT ![r.msg.id] = @ + 1]
    /\ Goto(r, [r EXCEPT !.pc = "marshal"])
    /\ UNCHANGED <<done, dispVars, queue, remote, deqOf, patchesOf, outcome>>
    /\ Observe

\* lines 154-155: cacheDevice.Status = deviceStatus.Status writes back the
\* slice header it was copied from; Store puts the same pointer in the map
WorkerStore(r) ==
    /\ r.pc = "merge"
    /\ r.todo = {}
    /\ cache' = [cache EXCEPT ![deviceID(r.msg)] = r.cacheDevice]
    /\ storesOf' = [storesOf EXCEPT ![r.msg.id] = @ + 1]
    /\ Goto(r, [r EXCEPT !.pc = "marshal"])
    /\ UNCHANGED <<done, dispVars, queue, heap, remote, deqOf, patchesOf, outcome>>
    /\ Observe

\* lines 157-161: json.Marshal returns an error
WorkerMarshalFail(r) ==
    /\ r.pc = "marshal"
    /\ Continue(r, "marshal")
    /\ UNCHANGED <<done, dispVars, queue, storeVars, deqOf, storesOf, patchesOf>>

\* line 157: body is the JSON of deviceStatus, read through the shared slice
WorkerMarshal(r) ==
    /\ r.pc = "marshal"
    /\ Goto(r, [r EXCEPT !.pc = "patch",
                         !.body = Ptr([status |-> [twins |-> heap[r.cacheDevice].twins]])])
    /\ UNCHANGED <<done, dispVars, queue, storeVars, histVars>>

\* line 162: the request
PatchRequest(r) ==
    [patchType |-> MergePatchType,
     namespace |-> heap[r.cacheDevice].namespace,
     resource |-> ResourceTypeDevices,
     name |-> deviceID(r.msg),
     body |-> Deref(r.body)]

\* The API server's devices live in the namespaces the cache was filled from.
RemoteNamespace(d) == IF InitCache[d] = 0 THEN "" ELSE InitHeap[InitCache[d]].namespace

\* WorkerPatchFail putting the message back on the channel for a retry
WorkerPatchFailRequeues(r) ==
    /\ r.pc = "patch"
    /\ patchesOf' = [patchesOf EXCEPT ![r.msg.id] = @ + 1]
    /\ queue' = Append(queue, r.msg)
    /\ Continue(r, "patchfail")
    /\ UNCHANGED <<done, dispVars, storeVars, deqOf, storesOf>>

\* WorkerPatchFail restoring the status it had loaded
WorkerPatchFailRollsBack(r) ==
    /\ r.pc = "patch"
    /\ patchesOf' = [patchesOf EXCEPT ![r.msg.id] = @ + 1]
    /\ heap' = [heap EXCEPT ![r.cacheDevice].twins = r.loaded]
    /\ Continue(r, "patchfail")
    /\ UNCHANGED <<done, dispVars, queue, cache, remote, deqOf, storesOf>>
    /\ Observe

\* lines 162-166: the request fails (any error the client or server reports)
WorkerPatchFail(r) ==
    /\ r.pc = "patch"
    /\ patchesOf' = [patchesOf EXCEPT ![r.msg.id] = @ + 1]
    /\ Continue(r, "patchfail")
    /\ UNCHANGED <<done, dispVars, queue, storeVars, deqOf, storesOf>>

\* lines 162, 167: the server applies the merge patch: status.twins, a JSON
\* array, is replaced by the body's
WorkerPatch(r) ==
    /\ r.pc = "patch"
    /\ LET req == PatchRequest(r)
       IN  /\ ~IsNil(remote[req.name])
           /\ req.namespace = RemoteNamespace(req.name)
           /\ remote' = [remote EXCEPT ![req.name] = Ptr(req.body.status.twins)]
           /\ patchesOf' = [patchesOf EXCEPT ![r.msg.id] = @ + 1]
    /\ Continue(r, "patched")
    /\ UNCHANGED <<done, dispVars, queue, cache, heap, seen, deqOf, storesOf>>

\* lines 106-170
updateDeviceStatus ==
    \/ WorkerStop
    \/ WorkerDequeue
    \/ \E r \in Busy : WorkerDecodeFail(r)
    \/ \E r \in Busy : WorkerDeviceIDFail(r)
    \/ \E r \in Busy : WorkerLoadMiss(r)
    \/ \E r \in Busy : WorkerLoad(r)
    \/ \E r \in Busy : WorkerMergeSkip(r)
    \/ \E r \in Busy : WorkerMergeValue(r)
    \/ \E r \in Busy : WorkerMergeMeta(r)
    \/ \E r \in Busy : WorkerStore(r)
    \/ \E r \in Busy : WorkerMarshalFail(r)
    \/ \E r \in Busy : WorkerMarshal(r)
    \/ \E r \in Busy : WorkerPatchFail(r)
    \/ \E r \in Busy : WorkerPatch(r)

\* lines 74-104
dispatchMessage ==
    \/ DispatchStop
    \/ DispatchPoll
    \/ DispatchReceiveError
    \/ DispatchParseFail
    \/ DispatchOther
    \/ DispatchTwinUpdated
    \/ DispatchPush

Next ==
    \/ Cancel
    \/ dispatchMessage
    \/ updateDeviceStatus

Spec == Init /\ [][Next]_vars

\* ------------------------------------------- the downstream controller
\* The other writer of the sync.Map, uc.dc (line 56): on a watch event of the
\* API server it stores the object the event carries, a NEW v1alpha1.Device,
\* under the device's name, or deletes the name.  The object it stores is the
\* device as the server holds it (the status the last patch left included)
\* with the desired values of the new revision.
Redesired(twins) ==
    [k \in 1..Len(twins) |-> [twins[k] EXCEPT !.desired = Desired("25")]]

\* the device was updated, or created again, on the server
DownstreamStore ==
    /\ Len(heap) < MaxObjects
    /\ \E d \in {x \in DeviceIds : InitCache[x] # 0} :
        LET twins == IF IsNil(remote[d]) THEN Redesired(InitHeap[InitCache[d]].twins)
                     ELSE Redesired(Deref(remote[d]))
        IN  /\ heap' = Append(heap, Device(RemoteNamespace(d), twins))
            /\ cache' = [cache EXCEPT ![d] = Len(heap) + 1]
            /\ remote' = [remote EXCEPT ![d] = Ptr(twins)]
    /\ Observe
    /\ UNCHANGED <<done, dispVars, queue, workerVars, histVars>>

\* the device was deleted on the server
DownstreamDelete ==
    /\ \E d \in DeviceIds :
        /\ cache[d] # 0
        /\ cache' = [cache EXCEPT ![d] = 0]
        /\ remote' = [remote EXCEPT ![d] = Nil]
    /\ UNCHANGED <<done, dispVars, queue, workerVars, heap, seen, histVars>>

downstream ==
    \/ DownstreamStore
    \/ DownstreamDelete

NextDown ==
    \/ Next
    \/ downstream

\* The pipeline next to the downstream controller.
SpecDown == Init /\ [][NextDown]_vars

\* ------------------------------------------------- the merge on its own
\* The merge of lines 134-151 as a function of (cached twin list, update):
\* the pipeline started with one update U for dev-1 in a worker's hands and
\* a second delivery of the same U waiting on the channel, dev-1 cached with
\* an arbitrary twin list T, and the messages processed one after the other.
MergeNames == {"temperature", "humidity"}
MergeReported == {UnsetProperty, OldProperty}

RECURSIVE TwinLists(_)
TwinLists(n) ==
    IF n = 0 THEN {<<>>}
    ELSE TwinLists(n - 1) \cup
         { Append(t, Twin(name, Desired("20"), rep)) :
             t \in {x \in TwinLists(n - 1) : Len(x) = n - 1},
             name \in MergeNames, rep \in MergeReported }

UpdateNames == {"temperature", "humidity", "pressure"}
UpdateTwins ==
    { TwNoActual, TwNoValue, TwBare("17"), TwStamped("60", 0 - 5), TwFull("42", 1000, "int"),
      MsgTwin(Ptr(TwinValue(Ptr("on"), Nil)), Ptr([type |-> "bool"])) }

Updates ==
    UNION { [names -> UpdateTwins] : names \in {n \in SUBSET UpdateNames : Cardinality(n) <= 2} }

InitMerge ==
    /\ done = FALSE
    /\ dpc = "receive"
    /\ dmsg = NoMsg
    /\ nrecv = 2
    /\ twinIds = <<1, 2>>
    /\ pushed = <<1, 2>>
    /\ idle = NumWorkers - 1
    /\ stopped = 0
    /\ cache = InitCache
    /\ \E T \in TwinLists(MaxTwins) :
        /\ heap = [InitHeap EXCEPT ![1] = Device("default", T)]
        /\ remote = [InitRemote EXCEPT !["dev-1"] = Ptr(T)]
        /\ seen = CacheHolds(InitCache, [InitHeap EXCEPT ![1] = Device("default", T)])
    /\ \E U \in Updates :
        /\ busy = SetToBag({Dequeued([id |-> 1, resource |-> TwinRes("dev-1"),
                                      content |-> Payload(U)])})
        /\ queue = <<[id |-> 2, resource |-> TwinRes("dev-1"), content |-> Payload(U)]>>
    /\ deqOf = [i \in MsgIds |-> IF i = 1 THEN 1 ELSE 0]
    /\ storesOf = [i \in MsgIds |-> 0]
    /\ patchesOf = [i \in MsgIds |-> 0]
    /\ outcome = [i \in MsgIds |-> "none"]

NextMerge ==
    \/ (busy = EmptyBag /\ WorkerDequeue)
    \/ \E r \in Busy : WorkerLoad(r)
    \/ \E r \in Busy : WorkerMergeSkip(r)
    \/ \E r \in Busy : WorkerMergeValue(r)
    \/ \E r \in Busy : WorkerMergeMeta(r)
    \/ \E r \in Busy : WorkerStore(r)
    \/ \E r \in Busy : WorkerMarshal(r)
    \/ \E r \in Busy : WorkerPatchFail(r)
    \/ \E r \in Busy : WorkerPatch(r)

SpecMerge == InitMerge /\ [][NextMerge]_vars

\* ------------------------------------------- two workers, one device
\* Two twin updates for dev-1, any two of PairUpdates, each in the hands of
\* a worker that has just dequeued it: every interleaving of the two
\* workers' steps from there, with nobody else writing to the cache.
PairTwins == {TwNoValue, TwBare("17"), TwFull("42", 1000, "int")}

PairUpdates ==
    UNION { [names -> PairTwins] : names \in {n \in SUBSET UpdateNames : Cardinality(n) <= 2} }

InitPair ==
    /\ done = FALSE
    /\ dpc = "receive"
    /\ dmsg = NoMsg
    /\ queue = <<>>
    /\ nrecv = 2
    /\ twinIds = <<1, 2>>
    /\ pushed = <<1, 2>>
    /\ idle = NumWorkers - 2
    /\ stopped = 0
    /\ cache = InitCache
    /\ heap = InitHeap
    /\ remote = InitRemote
    /\ seen = CacheHolds(InitCache, InitHeap)
    /\ \E U1, U2 \in PairUpdates :
        busy = SetToBag({Dequeued([id |-> 1, resource |-> TwinRes("dev-1"),
                                   content |-> Payload(U1)]),
                         Dequeued([id |-> 2, resource |-> TwinRes("dev-1"),
                                   content |-> Payload(U2)])})
    /\ deqOf = [i \in MsgIds |-> IF i <= 2 THEN 1 ELSE 0]
    /\ storesOf = [i \in MsgIds |-> 0]
    /\ patchesOf = [i \in MsgIds |-> 0]
    /\ outcome = [i \in MsgIds |-> "none"]

NextPair ==
    \/ \E r \in Busy : WorkerLoad(r)
    \/ \E r \in Busy : WorkerMergeSkip(r)
    \/ \E r \in Busy : WorkerMergeValue(r)
    \/ \E r \in Busy : WorkerMergeMeta(r)
    \/ \E r \in Busy : WorkerStore(r)
    \/ \E r \in Busy : WorkerMarshalFail(r)
    \/ \E r \in Busy : WorkerMarshal(r)
    \/ \E r \in Busy : WorkerPatchFail(r)
    \/ \E r \in Busy : WorkerPatch(r)

SpecPair == InitPair /\ [][NextPair]_vars

\* ================================================================ claims
\* Shorthands of the claims below.
\* The workers that have done their Store and not yet finished the message.
Stored == {r \in Busy : r.pc \in {"marshal", "patch"}}
\* The workers that have done their Load.
Loaded == {r \in Busy : r.pc \in {"merge", "mergeMeta", "marshal", "patch"}}
\* The cached status.twins of the device of r's message.
CachedTwins(r) == heap[cache[deviceID(r.msg)]].twins
Names(T) == {T[i].propertyName : i \in 1..Len(T)}
FirstOccurrence(T, i) == \A j \in 1..(i - 1) : T[j].propertyName # T[i].propertyName

\* ---------------------------------------------------------------------- C1
\* C1: a message whose device has no cache entry at the Load causes no cache
\* store and no patch request, and its worker goes back to the select: the
\* message ends as a miss with no Store and no Patch counted, the cache has
\* no entry for the device it names, nobody past the Load works on a device
\* the cache lacks, and every worker is waiting, busy or returned.
C1_MissNoStoreNoPatch ==
    /\ \A i \in MsgIds :
        outcome[i] = "miss" => storesOf[i] = 0 /\ patchesOf[i] = 0
    /\ \A r \in Loaded : cache[deviceID(r.msg)] # 0 /\ r.cacheDevice # 0
    /\ cache["dev-3"] = 0
    /\ \A r \in Busy : outcome[r.msg.id] = "none"
    /\ idle + stopped + BagCardinality(busy) = NumWorkers

C1_Witness ==
    \E i \in MsgIds : outcome[i] = "miss" /\ deqOf[i] = 1 /\ idle = NumWorkers

\* ---------------------------------------------------------------------- C2
\* Every entry of U names a property of T and carries a value.
C2_Applies(T, U) == \A n \in DOMAIN U : HasValue(U[n]) /\ n \in Names(T)

Decimal(ts) == CASE ts = 1000 -> "1000" [] ts = 0 - 5 -> "-5" [] ts = 7 -> "7"

\* rep is the Reported built from u alone: the value, the timestamp key iff
\* the actual metadata is present, the type key iff the twin metadata is.
C2_Replaced(rep, u) ==
    /\ rep.value = Deref(Deref(u.actual).value)
    /\ DOMAIN rep.metadata =
          (IF IsNil(Deref(u.actual).metadata) THEN {} ELSE {"timestamp"})
          \cup (IF IsNil(u.metadata) THEN {} ELSE {"type"})
    /\ ~IsNil(Deref(u.actual).metadata) =>
          rep.metadata["timestamp"] = Decimal(Deref(Deref(u.actual).metadata).timestamp)
    /\ ~IsNil(u.metadata) => rep.metadata["type"] = Deref(u.metadata).type

C2_SameShape(T, R) ==
    /\ Len(R) = Len(T)
    /\ \A i \in 1..Len(T) :
        R[i].propertyName = T[i].propertyName /\ R[i].desired = T[i].desired

\* C2 as stated: after the merge of an update U of known names with values
\* into T, the list has T's length and names, every entry whose name U holds
\* has its Reported replaced wholesale, and every other entry is unchanged.
C2_EveryNamedEntryReplaced ==
    \A r \in Stored :
        LET T == r.loaded
            U == msgTwin(r.msg)
            R == CachedTwins(r)
        IN  C2_Applies(T, U) =>
              /\ C2_SameShape(T, R)
              /\ \A i \in 1..Len(T) :
                    IF T[i].propertyName \in DOMAIN U
                    THEN C2_Replaced(R[i].reported, U[T[i].propertyName])
                    ELSE R[i] = T[i]

\* C2 as amended: the same, where the entries replaced are the FIRST entry
\* of each name U holds; a later entry of the same name is unchanged.
C2_FirstNamedEntryReplaced ==
    \A r \in Stored :
        LET T == r.loaded
            U == msgTwin(r.msg)
            R == CachedTwins(r)
        IN  C2_Applies(T, U) =>
              /\ C2_SameShape(T, R)
              /\ \A i \in 1..Len(T) :
                    IF T[i].propertyName \in DOMAIN U /\ FirstOccurrence(T, i)
                    THEN C2_Replaced(R[i].reported, U[T[i].propertyName])
                    ELSE R[i] = T[i]

\* an old Reported with three metadata keys replaced by one with only the
\* timestamp, next to an entry that is not named
C2_Witness ==
    \E r \in Stored :
        LET T == r.loaded
            U == msgTwin(r.msg)
            R == CachedTwins(r)
        IN  /\ r.msg.id = 1
            /\ C2_Applies(T, U)
            /\ DOMAIN U = {"temperature"}
            /\ Len(T) = 2
            /\ T[1].propertyName = "humidity"
            /\ T[2] = Twin("temperature", Desired("20"), OldProperty)
            /\ R[2].reported = [value |-> "60", metadata |-> [k \in {"timestamp"} |-> "-5"]]

\* ---------------------------------------------------------------------- C3
\* Every entry of U names no property of T or carries no value.
C3_Applies(T, U) == \A n \in DOMAIN U : ~HasValue(U[n]) \/ n \notin Names(T)

\* C3: merging an update whose entries all name unknown properties or carry
\* no value (the empty update included) changes nothing: from the Load on,
\* the cached twin list stays the list that was loaded, it is that list
\* which is written back, and the patch body holds that list.
C3_NoOpMerge ==
    \A r \in Loaded :
        C3_Applies(r.loaded, msgTwin(r.msg)) =>
          /\ CachedTwins(r) = r.loaded
          /\ r.pc = "patch" => PatchRequest(r).body.status.twins = r.loaded

C3_Witness ==
    \E r \in Busy :
        LET U == msgTwin(r.msg)
        IN  /\ r.pc = "patch"
            /\ DOMAIN U = {"temperature", "pressure"}
            /\ U["temperature"] = TwNoValue
            /\ HasValue(U["pressure"])
            /\ "temperature" \in Names(r.loaded)
            /\ C3_Applies(r.loaded, U)

\* ---------------------------------------------------------------------- C4
\* C4: the merge is idempotent: the second delivery of the same update,
\* merged into the outcome of the first, leaves the twin list as it found it.
C4_Idempotent ==
    \A r \in Stored : r.msg.id = 2 => CachedTwins(r) = r.loaded

\* the second merge is done, and the first had changed the list
C4_Witness ==
    \E r \in Stored :
        /\ r.msg.id = 2
        /\ outcome[1] = "patched"
        /\ \E i \in 1..Len(r.loaded) :
              r.loaded[i].reported.value = "42" /\ Len(r.loaded) = MaxTwins

\* ---------------------------------------------------------------------- C5
\* The value the update u reports.
ActualValue(u) == Deref(Deref(u.actual).value)

\* C5 as stated: a message that decodes, names a cached device and
\* serializes gets exactly one patch request, to the cached device's
\* namespace and the message's device id, whose body holds, for every twin
\* the message matched with a value, the value of that same message,
\* whatever the other workers do.
C5_PatchCarriesOwnValues ==
    /\ \A i \in MsgIds :
        /\ patchesOf[i] <= 1
        /\ outcome[i] \in {"patched", "patchfail"} => patchesOf[i] = 1
    /\ \A r \in Busy :
        r.pc = "patch" =>
          LET req == PatchRequest(r)
              U == msgTwin(r.msg)
              B == req.body.status.twins
          IN  /\ patchesOf[r.msg.id] = 0
              /\ req.namespace = heap[cache[Deref(r.msg.resource.device)]].namespace
              /\ req.name = Deref(r.msg.resource.device)
              /\ \A n \in DOMAIN U :
                    HasValue(U[n]) /\ n \in Names(r.loaded) =>
                      \E i \in 1..Len(B) :
                          /\ B[i].propertyName = n
                          /\ FirstOccurrence(B, i)
                          /\ B[i].reported.value = ActualValue(U[n])

\* ---------------------------------------------------------------------- C6
\* C6: the channel never holds more than its capacity; a dispatcher whose
\* send finds it full stays in the send with its message, it leaves the send
\* only by enqueuing that message, and the send can go through as soon as
\* there is room.
C6_BoundedBlockingQueue ==
    /\ [](Len(queue) <= QueueCap)
    /\ [](dpc = "push" /\ Len(queue) < QueueCap => ENABLED DispatchPush)
    /\ [][dpc = "push" /\ Len(queue) = QueueCap => dpc' = "push" /\ dmsg' = dmsg]_vars
    /\ [][dpc = "push" /\ dpc' # "push" => queue' = Append(queue, dmsg)]_vars

\* the dispatcher is blocked in the send of the second message
C6_Witness ==
    /\ dpc = "push"
    /\ Len(queue) = QueueCap
    /\ dmsg.id = nrecv
    /\ nrecv = QueueCap + 1

\* ---------------------------------------------------------------------- C7
QueueIds == [k \in 1..Len(queue) |-> queue[k].id]
InQueue(i) == {k \in 1..Len(queue) : queue[k].id = i}
BusyWith(i) == {r \in Busy : r.msg.id = i}

\* C7: a message is dequeued at most once, stored at most once and patched
\* at most once; it is in one place at a time (the dispatcher's hands, the
\* channel, one worker) and nowhere once its processing has ended; the
\* channel only changes by a dequeue or by the dispatcher's send, and no id
\* is sent twice.
C7_AtMostOnce ==
    /\ [](\A i \in MsgIds :
            /\ deqOf[i] <= 1 /\ storesOf[i] <= 1 /\ patchesOf[i] <= 1
            /\ Cardinality(InQueue(i)) + Cardinality(BusyWith(i))
                 + (IF dmsg.id = i THEN 1 ELSE 0) <= 1
            /\ \A r \in BusyWith(i) : CopiesIn(r, busy) = 1
            /\ outcome[i] # "none" => InQueue(i) = {} /\ BusyWith(i) = {} /\ deqOf[i] = 1)
    /\ [](\A j, k \in 1..Len(pushed) : j # k => pushed[j] # pushed[k])
    /\ [][queue' # queue =>
            \/ queue # <<>> /\ queue' = Tail(queue)
            \/ dpc = "push" /\ dpc' = "select" /\ queue' = Append(queue, dmsg)]_vars

\* a message whose patch failed is gone: counted once, not on the channel
C7_Witness ==
    /\ outcome[1] = "patchfail"
    /\ deqOf[1] = 1 /\ storesOf[1] = 1 /\ patchesOf[1] = 1
    /\ queue = <<>> /\ busy = EmptyBag /\ dpc = "receive"

\* ---------------------------------------------------------------------- C8
\* C8: no failure ends a loop: the dispatcher and the workers return only
\* when Done is closed, every worker is waiting in the select, processing an
\* unfinished message or returned, and a worker is never left inside a
\* message whose processing has ended.
C8_FailuresNotFatal ==
    /\ dpc = "stopped" => done
    /\ stopped > 0 => done
    /\ idle >= 0 /\ stopped >= 0
    /\ idle + stopped + BagCardinality(busy) = NumWorkers
    /\ \A r \in Busy : outcome[r.msg.id] = "none"
    /\ \A i \in MsgIds : outcome[i] # "none" /\ ~done => idle > 0 \/ busy # EmptyBag

\* after a dropped message and a decode failure, a later message was merged
\* and published, with no cancellation
C8_Witness ==
    /\ ~done
    /\ \E i, j \in MsgIds :
        /\ i < j
        /\ outcome[i] \in {"decode", "deviceid", "miss", "marshal", "patchfail"}
        /\ outcome[j] = "patched"
        /\ storesOf[j] = 1

\* ---------------------------------------------------------------------- C9
\* r's message is the only one dequeued so far.
OnlyDequeued(i) == \A j \in MsgIds : j # i => deqOf[j] = 0

\* C9: the Store comes before the Patch and is not undone: a patch request
\* counted means a Store counted; a worker between its Store and the end of
\* the message finds the cache entry it stored, holding the values it merged
\* when no other message was dequeued; a failing Marshal or Patch changes
\* neither the cache, nor the cached objects, nor the remote store; and after
\* such a failure of the only message dequeued the remote store is as it was
\* while the cache holds the reported value.
C9_StoreBeforePatchNotUndone ==
    /\ [](\A i \in MsgIds : patchesOf[i] > 0 => storesOf[i] > 0)
    /\ [](\A r \in Stored :
            /\ storesOf[r.msg.id] = 1
            /\ cache[deviceID(r.msg)] = r.cacheDevice
            /\ OnlyDequeued(r.msg.id) =>
                  \A n \in DOMAIN msgTwin(r.msg) :
                      HasValue(msgTwin(r.msg)[n]) /\ n \in Names(r.loaded) =>
                        \E k \in 1..Len(CachedTwins(r)) :
                            /\ CachedTwins(r)[k].propertyName = n
                            /\ C2_Replaced(CachedTwins(r)[k].reported, msgTwin(r.msg)[n]))
    /\ [](\A i \in MsgIds :
            outcome[i] \in {"marshal", "patchfail"} /\ OnlyDequeued(i) =>
              /\ remote = InitRemote
              /\ heap[cache["dev-1"]].twins[1].reported.value \in {"42", "17"})
    /\ [][\A i \in MsgIds :
            outcome[i] = "none" /\ outcome'[i] \in {"marshal", "patchfail"} =>
              UNCHANGED <<cache, heap, remote>>]_vars

\* the patch of the only message failed: the cache has its value, the
\* remote store has not
C9_Witness ==
    /\ outcome[1] = "patchfail"
    /\ OnlyDequeued(1)
    /\ heap[cache["dev-1"]].twins[1].reported.value = "42"
    /\ Deref(remote["dev-1"])[1].reported.value = ""

\* --------------------------------------------------------------------- C10
Range(f) == {f[k] : k \in DOMAIN f}

\* C10: what the dispatcher has sent on the channel is, in arrival order,
\* the twin updates among the messages received (the one it is sending
\* excepted); the channel holds the tail of that sequence; a message of
\* another type, or of a type that does not parse, is never on the channel
\* and is never dequeued, stored or patched.
C10_OnlyTwinUpdatesInOrder ==
    /\ twinIds = IF dpc = "push" THEN Append(pushed, dmsg.id) ELSE pushed
    /\ Len(queue) <= Len(pushed)
    /\ QueueIds = SubSeq(pushed, Len(pushed) - Len(queue) + 1, Len(pushed))
    /\ \A k \in 1..Len(queue) : IsTwinUpdate(queue[k])
    /\ \A r \in Busy : IsTwinUpdate(r.msg)
    /\ \A i \in 1..nrecv :
        i \notin Range(twinIds) =>
          /\ deqOf[i] = 0 /\ storesOf[i] = 0 /\ patchesOf[i] = 0
          /\ outcome[i] = "none"
          /\ InQueue(i) = {} /\ BusyWith(i) = {}

\* a message was dropped, the next one was sent
C10_Witness ==
    /\ nrecv = 2
    /\ twinIds = <<2>>
    /\ pushed = <<2>>
    /\ deqOf[1] = 0

\* --------------------------------------------------------------------- C11
\* C11: once Done is closed the dispatcher terminates whatever it is doing:
\* in no state with Done closed is the dispatcher short of its return while
\* nothing in the system can move any more.
C11_DispatcherTerminates ==
    done => dpc = "stopped" \/ ENABLED Next

\* The state that contradicts it: Done closed, every worker returned, the
\* channel full and the dispatcher in the send of line 99.
C11_StuckInSend ==
    /\ done
    /\ dpc = "push"
    /\ Len(queue) = QueueCap
    /\ stopped = NumWorkers

\* --------------------------------------------------------------------- C12
\* The part of C12 that holds: with Done closed, a worker that has not
\* returned can always take a step (it is never blocked for good).
C12_WorkersCanStop ==
    done => stopped = NumWorkers \/ ENABLED updateDeviceStatus

\* C12: once Done is closed every worker terminates after completing at most
\* the message it is processing at that moment: a worker that has not
\* returned can move, and from then on no worker takes up another message,
\* so the workers inside a message only get fewer.
C12_WorkersTerminate ==
    /\ []C12_WorkersCanStop
    /\ [][done => BagCardinality(busy') <= BagCardinality(busy)]_vars

\* --------------------------------------------------------------------- C16
\* C16: once Done is closed no worker dequeues a message, even when the
\* channel is not empty: the dequeue counts do not change any more and the
\* channel never gets shorter.
C16_NoDequeueAfterCancel ==
    [][done => deqOf' = deqOf /\ Len(queue') >= Len(queue)]_vars

\* --------------------------------------------------------------------- C15
\* The indices of T whose entry is named n.
Occurrences(T, n) == {i \in 1..Len(T) : T[i].propertyName = n}

\* C15: when the cached list holds several entries named n and the update
\* names n with a value, the merge replaces the Reported of the entry of
\* lowest index only: that one holds what the update says, every later entry
\* named n is as it was loaded.
C15_FirstDuplicateOnly ==
    \A r \in Stored :
        LET T == r.loaded
            U == msgTwin(r.msg)
            R == CachedTwins(r)
        IN  \A n \in DOMAIN U :
              HasValue(U[n]) /\ Cardinality(Occurrences(T, n)) >= 2 =>
                /\ Len(R) = Len(T)
                /\ \A i \in Occurrences(T, n) :
                      IF FirstOccurrence(T, i)
                      THEN /\ C2_Replaced(R[i].reported, U[n])
                           /\ R[i].propertyName = n /\ R[i].desired = T[i].desired
                      ELSE R[i] = T[i]

\* two entries named temperature, both with an old Reported: the first now
\* reports 17, the second is still old
C15_Witness ==
    \E r \in Stored :
        LET T == r.loaded
            R == CachedTwins(r)
        IN  /\ r.msg.id = 1
            /\ Len(T) = 3
            /\ T[1].propertyName = "humidity"
            /\ T[2] = Twin("temperature", Desired("20"), OldProperty)
            /\ T[3] = T[2]
            /\ msgTwin(r.msg) = [n \in {"temperature"} |-> TwBare("17")]
            /\ R[2].reported = [value |-> "17", metadata |-> EmptyMetadata]
            /\ R[3].reported = OldProperty

\* --------------------------------------------------------------------- C13
\* C13: a worker never creates a cache entry: a device id absent from the
\* cache becomes present only by a store of the downstream controller (which
\* puts a new object there), never in a step that counts a worker's Store;
\* so an entry downstream deleted between a worker's Load and its Store
\* stays absent.
C13_WorkerNeverCreates ==
    [][\A d \in DeviceIds :
          cache[d] = 0 /\ cache'[d] # 0 =>
            storesOf' = storesOf /\ cache'[d] = Len(heap) + 1]_vars

\* --------------------------------------------------------------------- C14
\* The fields of a cached device a worker is not to touch: a and b have the
\* same namespace, the same sequence of twin names and the same desired
\* values.
SameFrame(a, b) ==
    /\ a.namespace = b.namespace
    /\ Len(a.twins) = Len(b.twins)
    /\ \A k \in 1..Len(a.twins) :
        /\ a.twins[k].propertyName = b.twins[k].propertyName
        /\ a.twins[k].desired = b.twins[k].desired

\* C14: a worker changes only Reported fields: in a step that counts a
\* worker's Store, the entry of each device present before and after has the
\* same namespace, twin names and non-Reported fields after as before,
\* whatever the downstream controller stored in between.
C14_StoreKeepsFrame ==
    [][storesOf' # storesOf =>
          \A d \in DeviceIds :
              cache[d] # 0 /\ cache'[d] # 0 =>
                SameFrame(heap[cache[d]], heap'[cache'[d]])]_vars

\* --------------------------------------------------------------------- C17
\* The first entry of T named n.
FirstNamed(T, n) == CHOOSE k \in 1..Len(T) : T[k].propertyName = n /\ FirstOccurrence(T, k)

\* C17: two workers on the same cached device whose updates name disjoint
\* sets of twins do not conflict: in every state where both have stored,
\* whatever the interleaving that led there, the cached device holds, for
\* each twin either update names with a value, the Reported that update
\* gives it, and every other twin is as it was cached at the start.
C17_DisjointUpdatesBothKept ==
    \A r1, r2 \in Stored :
        LET U1 == msgTwin(r1.msg)
            U2 == msgTwin(r2.msg)
            R == CachedTwins(r1)
            T == InitHeap[1].twins
            named(U) == {n \in DOMAIN U : HasValue(U[n]) /\ n \in Names(T)}
        IN  /\ r1.msg.id # r2.msg.id
            /\ deviceID(r1.msg) = deviceID(r2.msg)
            /\ DOMAIN U1 \cap DOMAIN U2 = {}
            => /\ C2_SameShape(T, R)
               /\ \A n \in named(U1) : C2_Replaced(R[FirstNamed(T, n)].reported, U1[n])
               /\ \A n \in named(U2) : C2_Replaced(R[FirstNamed(T, n)].reported, U2[n])
               /\ \A k \in 1..Len(T) :
                     T[k].propertyName \notin named(U1) \cup named(U2) => R[k] = T[k]

\* both workers loaded the device before either wrote to it, one reported
\* the temperature, the other the humidity, and the cache has both
C17_Witness ==
    \E r1, r2 \in Stored :
        /\ msgTwin(r1.msg) = [n \in {"temperature"} |-> TwFull("42", 1000, "int")]
        /\ msgTwin(r2.msg) = [n \in {"humidity"} |-> TwBare("17")]
        /\ r1.loaded = InitHeap[1].twins
        /\ r2.loaded = InitHeap[1].twins
        /\ CachedTwins(r1)[1].reported.value = "42"
        /\ CachedTwins(r1)[2].reported = [value |-> "17", metadata |-> EmptyMetadata]

\* --------------------------------------------------------------------- C18
\* The twins both U1 and U2 give a value, among those T holds.
BothName(U1, U2, T) ==
    {n \in DOMAIN U1 \cap DOMAIN U2 : HasValue(U1[n]) /\ HasValue(U2[n]) /\ n \in Names(T)}

\* C18: when two workers process messages for the same device naming the
\* same twin with values, the cached Reported value of that twin once both
\* have stored is the value of the worker whose Store came last: at the step
\* in which a worker stores while the other, still holding its message, has
\* stored already, the cache holds the storing worker's value.
C18_LastStoreWins ==
    [][\A r \in Busy : \A q \in Stored :
          /\ r.pc = "merge"
          /\ storesOf[r.msg.id] = 0
          /\ storesOf'[r.msg.id] = 1
          /\ q.msg.id # r.msg.id
          /\ deviceID(q.msg) = deviceID(r.msg)
          => \A n \in BothName(msgTwin(r.msg), msgTwin(q.msg), r.loaded) :
                heap'[cache'[deviceID(r.msg)]].twins[FirstNamed(r.loaded, n)].reported.value
                    = ActualValue(msgTwin(r.msg)[n])]_vars

\* --------------------------------------------------------------------- C19
\* Nothing is in flight: the channel is empty, no worker is inside a
\* message and the dispatcher holds none.
Quiescent == queue = <<>> /\ busy = EmptyBag /\ dpc # "push"

\* C19: a divergence between cache and remote store lasts only until the
\* next successful update: when nothing is in flight, every patch request
\* made so far succeeded (so the most recent one did) and at least one was
\* made, the remote status of each cached device equals its cached status.
C19_RemoteCatchesUp ==
    /\ Quiescent
    /\ \A i \in MsgIds : outcome[i] \notin {"marshal", "patchfail"}
    /\ \E i \in MsgIds : outcome[i] = "patched"
    => \A d \in DeviceIds :
          cache[d] # 0 => remote[d] = Ptr(heap[cache[d]].twins)

\* --------------------------------------------------------------------- C20
\* C20: the remote store is never ahead of the cache: every reported value
\* the remote store holds for a twin of a device is one the cache entry of
\* that device has held for that twin (seen only grows, and a patch does not
\* add to it, so the value was there when the patch request was issued).
C20_RemoteNeverAhead ==
    \A d \in DeviceIds :
        ~IsNil(remote[d]) =>
          \A k \in 1..Len(Deref(remote[d])) :
              <<d, Deref(remote[d])[k].propertyName, Deref(remote[d])[k].reported.value>> \in seen

====
